---- MODULE Spec2Model ----
(***************************************************************************)
(* The upload-processing pipeline of src/index.js (the /upload route of    *)
(* the current version of the server, lines 303-362, with the multer       *)
(* configuration of lines 227-238): multer streams the uploaded image to   *)
(* uploads/<Date.now()><ext>, Tesseract reads it, the text is normalised   *)
(* and handed to a spawned python process, whose 'close' event unlinks the *)
(* file and sends the response.                                            *)
(*                                                                         *)
(* Strings the code transforms character by character (the OCR text) are   *)
(* sequences of one-character strings; strings it only concatenates and    *)
(* parses (the process's stdout and stderr) are TLA+ strings.              *)
(***************************************************************************)
EXTENDS Integers, Sequences, FiniteSets, TLC

VARIABLES
    now,        \* Date.now(), in milliseconds since the server started
    disk,       \* the uploads directory: file name -> the request whose upload created it
    crashed,    \* the node process died of an uncaught exception
    pc,         \* per request: where its handler is
    file,       \* per request: the multipart file part, [originalname, size]
    filename,   \* per request: req.file.filename, the name storage.filename generated
    written,    \* per request: bytes multer's disk storage wrote under uploads
    text,       \* per request: the text Tesseract.recognize resolved with
    argv,       \* per request: the argument handed to predictor.py (cleanText)
    py,         \* per request: the child process: chunks it will still emit, exit code
    stdout,     \* per request: the handler's stdout accumulator
    stderr,     \* per request: the handler's stderr accumulator
    log,        \* per request: what the handler wrote to the console
    res,        \* per request: the response sent
    nin,        \* normalizer check: the input string
    nout,       \* normalizer check: cleanText of it
    ndone       \* normalizer check: the normalizer has been applied

vars == <<now, disk, crashed, pc, file, filename, written, text, argv, py,
          stdout, stderr, log, res, nin, nout, ndone>>

pipeVars == <<now, disk, crashed, pc, file, filename, written, text, argv, py,
              stdout, stderr, log, res>>

normVars == <<nin, nout, ndone>>

(***************************************************************************)
(* Bounds.                                                                 *)
(***************************************************************************)
MaxTime == 2
MaxLen == 3

Reqs == {"r1", "r2"}

(***************************************************************************)
(* Text normalizer: text.replace(/"/g, '\"').replace(/\n/g, ' ').          *)
(***************************************************************************)
RECURSIVE ReplaceAll(_, _, _)
ReplaceAll(s, ch, rep) ==
    IF s = <<>> THEN <<>>
    ELSE (IF Head(s) = ch THEN rep ELSE <<Head(s)>>) \o ReplaceAll(Tail(s), ch, rep)

\* The JavaScript string literal '\"' is the one-character string ".
QuoteReplacement == <<"\"">>

cleanText(t) == ReplaceAll(ReplaceAll(t, "\"", QuoteReplacement), "\n", <<" ">>)

Chars == {"a", "\"", "\n", " ", "\\"}

RECURSIVE SeqsUpTo(_)
SeqsUpTo(n) ==
    IF n = 0 THEN {<<>>}
    ELSE LET shorter == SeqsUpTo(n - 1)
         IN  shorter \cup {Append(s, c) : s \in {q \in shorter : Len(q) = n - 1}, c \in Chars}

\* He said "ok"<newline>take 1
Example ==
    <<"H", "e", " ", "s", "a", "i", "d", " ", "\"", "o", "k", "\"", "\n",
      "t", "a", "k", "e", " ", "1">>

NormInputs == SeqsUpTo(MaxLen) \cup {Example}

(***************************************************************************)
(* The multer configuration.                                               *)
(***************************************************************************)
FileSizeLimit == 10 * 1024 * 1024

OriginalNames == {"rx.png", "scan.jpg"}

\* path.extname on the file names the model uploads
ExtName(originalname) ==
    CASE originalname = "rx.png" -> ".png"
      [] originalname = "scan.jpg" -> ".jpg"

Sizes == {1024, FileSizeLimit + 1}

\* storage.filename: `${Date.now()}${path.extname(file.originalname)}`
SafeName(t, originalname) == <<t, ExtName(originalname)>>

Names == {<<t, ExtName(o)>> : t \in 0..MaxTime, o \in OriginalNames}

\* no limits.fileSize in force
ExceedsLimitNever(size) == FALSE

\* busboy cuts the file stream off, and multer fails with LIMIT_FILE_SIZE,
\* when the part holds more than limits.fileSize bytes
ExceedsLimit(size) == size > FileSizeLimit

(***************************************************************************)
(* JavaScript values of the response bodies and of JSON.parse.             *)
(***************************************************************************)
Undefined == [t |-> "undefined"]
JsNull == [t |-> "null"]
JsString(v) == [t |-> "string", v |-> v]
JsArray(v) == [t |-> "array", v |-> v]
\* an object, by the two properties the handler reads
JsObject(c, m) == [t |-> "object", cleaned_text |-> c, medicines |-> m]

NoRes == [status |-> 0]
Resp(status, body) == [status |-> status, body |-> body]

(***************************************************************************)
(* The entity extraction process (python predictor.py): an external        *)
(* program, so each run is one of these behaviours: the chunks it writes   *)
(* to stdout and stderr and its exit code.                                 *)
(***************************************************************************)
GoodHead == "{\"cleaned_text\":\"Take Paracetamol 500mg\","
GoodTail == "\"medicines\":[{\"name\":\"Paracetamol\",\"dosage\":\"500mg\"},{\"name\":\"Ibuprofen\",\"dosage\":\"200mg\"}]}"

GoodMedicines ==
    << [name |-> "Paracetamol", dosage |-> "500mg"],
       [name |-> "Ibuprofen", dosage |-> "200mg"] >>

ProcessRuns ==
    { [out |-> <<GoodHead, GoodTail>>, err |-> <<>>, code |-> 0],
      [out |-> <<"not json">>, err |-> <<>>, code |-> 0],
      [out |-> <<"{}">>, err |-> <<>>, code |-> 0],
      [out |-> <<"null">>, err |-> <<"warning">>, code |-> 0],
      [out |-> <<GoodHead>>, err |-> <<"Traceback">>, code |-> 1],
      [out |-> <<GoodHead, GoodTail>>, err |-> <<"Killed">>, code |-> 1] }

\* py before spawn, and the ChildProcess spawn returns for a run
NoProc == [started |-> FALSE, out |-> <<>>, err |-> <<>>, code |-> 0]
Child(run) == [started |-> TRUE, out |-> run.out, err |-> run.err, code |-> run.code]

\* JSON.parse on the outputs above: [ok, value], ok = FALSE for a SyntaxError
JSONParse(s) ==
    CASE s = GoodHead \o GoodTail ->
             [ok |-> TRUE,
              value |-> JsObject(JsString("Take Paracetamol 500mg"), JsArray(GoodMedicines))]
      [] s = "{}" -> [ok |-> TRUE, value |-> JsObject(Undefined, Undefined)]
      [] s = "null" -> [ok |-> TRUE, value |-> JsNull]
      [] OTHER -> [ok |-> FALSE, value |-> Undefined]

(***************************************************************************)
(* The 'close' handler of the child process, after fs.unlinkSync.          *)
(***************************************************************************)
\* the diagnostics put into the body
NerFailedBodyWithStderr(err) == [error |-> "NER failed", stderr |-> err]

NerFailedBody(err) == [error |-> "NER failed"]

\* the normalized text returned in place of the raw one
SuccessBodyNormalized(t, result) ==
    [ocrText |-> JsString(cleanText(t)),
     cleanedText |-> result.cleaned_text,
     medicines |-> result.medicines]

\* { ocrText: text, cleanedText: result.cleaned_text, medicines: result.medicines }
SuccessBody(t, result) ==
    [ocrText |-> JsString(t),
     cleanedText |-> result.cleaned_text,
     medicines |-> result.medicines]

ParseFailed == Resp(500, [error |-> "Failed to parse NER output"])

\* the try block around JSON.parse: a SyntaxError, or the TypeError of reading
\* a property of null, lands in its catch
ParseAndRespond(out, t) ==
    LET p == JSONParse(out)
    IN  IF ~p.ok
        THEN [res |-> ParseFailed, log |-> <<[tag |-> "JSON parse error", data |-> ""]>>]
        ELSE IF p.value.t = "null"
        THEN [res |-> ParseFailed,
              log |-> <<[tag |-> "Parsed result", data |-> out],
                        [tag |-> "JSON parse error", data |-> ""]>>]
        ELSE [res |-> Resp(200, SuccessBody(t, p.value)),
              log |-> <<[tag |-> "Parsed result", data |-> out]>>]

\* [res, log]: the response and the console lines of the handler
CloseHandler(code, out, err, t) ==
    IF code # 0
    THEN [res |-> Resp(500, NerFailedBody(err)),
          log |-> <<[tag |-> "Python stderr", data |-> err]>>]
    ELSE ParseAndRespond(out, t)

OcrFailed == Resp(500, [error |-> "OCR failed"])

OcrTexts == { <<"R", "x", "\"", "\n", "1">>, <<"o", "k">> }

(***************************************************************************)
(* State after the server has started: no request yet, uploads/ empty.     *)
(***************************************************************************)
NoFile == "none"
NoName == <<>>
NoFilePart == [originalname |-> "", size |-> 0]

PipeInit ==
    /\ now = 0
    /\ disk = [n \in Names |-> NoFile]
    /\ crashed = FALSE
    /\ pc = [r \in Reqs |-> "Idle"]
    /\ file = [r \in Reqs |-> NoFilePart]
    /\ filename = [r \in Reqs |-> NoName]
    /\ written = [r \in Reqs |-> 0]
    /\ text = [r \in Reqs |-> <<>>]
    /\ argv = [r \in Reqs |-> <<>>]
    /\ py = [r \in Reqs |-> NoProc]
    /\ stdout = [r \in Reqs |-> ""]
    /\ stderr = [r \in Reqs |-> ""]
    /\ log = [r \in Reqs |-> <<>>]
    /\ res = [r \in Reqs |-> NoRes]

Init ==
    /\ PipeInit
    /\ nin = <<>>
    /\ nout = <<>>
    /\ ndone = FALSE

\* fs: the file a request's filePath names is there
Exists(r) == filename[r] # NoName /\ disk[filename[r]] # NoFile

\* fs.unlinkSync(filePath) / multer's _removeFile, on a file that is there
Unlinked(r) == [disk EXCEPT ![filename[r]] = NoFile]

Respond(r, response) ==
    /\ res' = [res EXCEPT ![r] = response]
    /\ pc' = [pc EXCEPT ![r] = "Responded"]

\* an exception nobody catches ends the node process
Crash(r) ==
    /\ crashed' = TRUE
    /\ pc' = [pc EXCEPT ![r] = "Died"]

(***************************************************************************)
(* Date.now() advances.                                                    *)
(***************************************************************************)
Tick ==
    /\ ~crashed
    /\ now < MaxTime
    /\ now' = now + 1
    /\ UNCHANGED <<disk, crashed, pc, file, filename, written, text, argv, py,
                   stdout, stderr, log, res, normVars>>

(***************************************************************************)
(* upload.single('image') and its callback's early returns.                *)
(***************************************************************************)
\* a request without a file part: 400
ReceiveNoFile(r) ==
    /\ ~crashed
    /\ pc[r] = "Idle"
    /\ Respond(r, Resp(400, [error |-> "No file uploaded"]))
    /\ UNCHANGED <<now, disk, crashed, file, filename, written, text, argv, py,
                   stdout, stderr, log, normVars>>

\* a file part under another field name: multer fails with
\* LIMIT_UNEXPECTED_FILE before it stores anything: 500
ReceiveUnexpectedField(r) ==
    /\ ~crashed
    /\ pc[r] = "Idle"
    /\ Respond(r, Resp(500, [error |-> "Upload failed"]))
    /\ UNCHANGED <<now, disk, crashed, file, filename, written, text, argv, py,
                   stdout, stderr, log, normVars>>

\* the file part arrives: storage.filename names it and the disk storage
\* opens uploads/<name> for writing, creating or truncating it
Receive(r, originalname, size) ==
    /\ ~crashed
    /\ pc[r] = "Idle"
    /\ file' = [file EXCEPT ![r] = [originalname |-> originalname, size |-> size]]
    /\ filename' = [filename EXCEPT ![r] = SafeName(now, originalname)]
    /\ disk' = [disk EXCEPT ![SafeName(now, originalname)] = r]
    /\ pc' = [pc EXCEPT ![r] = "Uploading"]
    /\ UNCHANGED <<now, crashed, written, text, argv, py, stdout, stderr, log,
                   res, normVars>>

\* the part's bytes are streamed to the file, up to limits.fileSize
StreamData(r) ==
    /\ ~crashed
    /\ pc[r] = "Uploading"
    /\ IF ExceedsLimit(file[r].size)
       THEN /\ written' = [written EXCEPT ![r] = FileSizeLimit]
            /\ pc' = [pc EXCEPT ![r] = "LimitHit"]
       ELSE /\ written' = [written EXCEPT ![r] = file[r].size]
            /\ pc' = [pc EXCEPT ![r] = "Stored"]
    /\ UNCHANGED <<now, disk, crashed, file, filename, text, argv, py, stdout,
                   stderr, log, res, normVars>>

\* LIMIT_FILE_SIZE: multer removes what it stored and the callback answers 413
MulterAbort(r) ==
    /\ ~crashed
    /\ pc[r] = "LimitHit"
    /\ disk' = Unlinked(r)
    /\ log' = [log EXCEPT ![r] = Append(@, [tag |-> "Multer error", data |-> "File too large"])]
    /\ Respond(r, Resp(413, [error |-> "File too large. Max size is 10MB."]))
    /\ UNCHANGED <<now, crashed, file, filename, written, text, argv, py, stdout,
                   stderr, normVars>>

\* the callback runs with req.file set and calls Tesseract.recognize(filePath)
StartOcr(r) ==
    /\ ~crashed
    /\ pc[r] = "Stored"
    /\ pc' = [pc EXCEPT ![r] = "OcrRunning"]
    /\ UNCHANGED <<now, disk, crashed, file, filename, written, text, argv, py,
                   stdout, stderr, log, res, normVars>>

(***************************************************************************)
(* The try block: await Tesseract.recognize, cleanText, spawn; its catch.  *)
(***************************************************************************)
\* console.log(`OCR text extracted: ${text}`), written when recognize resolves
OcrLogged == [tag |-> "OCR text extracted", data |-> ""]

\* the catch block when filePath is there: unlinkSync, then 500 'OCR failed'
CatchBlock(r, logged) ==
    /\ disk' = Unlinked(r)
    /\ log' = [log EXCEPT ![r] = @ \o logged \o <<[tag |-> "OCR processing error", data |-> ""]>>]
    /\ Respond(r, OcrFailed)

\* Tesseract.recognize rejects
OcrReject(r) ==
    /\ ~crashed
    /\ pc[r] = "OcrRunning"
    /\ Exists(r)
    /\ CatchBlock(r, <<>>)
    /\ UNCHANGED <<now, crashed, file, filename, written, text, argv, py, stdout,
                   stderr, normVars>>

\* Tesseract.recognize resolves and spawn() throws synchronously (E2BIG, EPERM,
\* an argument with a NUL character): the same catch block runs
OcrResolveSpawnThrows(r, t) ==
    /\ ~crashed
    /\ pc[r] = "OcrRunning"
    /\ Exists(r)
    /\ text' = [text EXCEPT ![r] = t]
    /\ argv' = [argv EXCEPT ![r] = cleanText(t)]
    /\ CatchBlock(r, <<OcrLogged>>)
    /\ UNCHANGED <<now, crashed, file, filename, written, py, stdout, stderr, normVars>>

\* the catch block when filePath is gone: unlinkSync throws ENOENT inside the
\* async callback, whose promise nobody handles. Node ends the process on an
\* unhandled rejection or only warns, by version and flags; when it only
\* warns, the request is never answered.
UnhandledRejection(r, outcome) ==
    IF outcome = "exit"
    THEN Crash(r)
    ELSE pc' = [pc EXCEPT ![r] = "Hung"] /\ UNCHANGED crashed

\* Tesseract.recognize rejects and filePath is gone
OcrRejectUnlinkThrows(r, outcome) ==
    /\ ~crashed
    /\ pc[r] = "OcrRunning"
    /\ ~Exists(r)
    /\ UnhandledRejection(r, outcome)
    /\ UNCHANGED <<now, disk, file, filename, written, text, argv, py, stdout,
                   stderr, log, res, normVars>>

\* spawn() throws synchronously and filePath is gone
SpawnThrowsUnlinkThrows(r, t, outcome) ==
    /\ ~crashed
    /\ pc[r] = "OcrRunning"
    /\ ~Exists(r)
    /\ text' = [text EXCEPT ![r] = t]
    /\ argv' = [argv EXCEPT ![r] = cleanText(t)]
    /\ log' = [log EXCEPT ![r] = Append(@, OcrLogged)]
    /\ UnhandledRejection(r, outcome)
    /\ UNCHANGED <<now, disk, file, filename, written, py, stdout, stderr, res,
                   normVars>>

\* Tesseract.recognize resolves and the python process starts
OcrResolve(r, t, run) ==
    /\ ~crashed
    /\ pc[r] = "OcrRunning"
    /\ text' = [text EXCEPT ![r] = t]
    /\ argv' = [argv EXCEPT ![r] = cleanText(t)]
    /\ py' = [py EXCEPT ![r] = Child(run)]
    /\ log' = [log EXCEPT ![r] = Append(@, OcrLogged)]
    /\ pc' = [pc EXCEPT ![r] = "ExtractionRunning"]
    /\ UNCHANGED <<now, disk, crashed, file, filename, written, stdout, stderr,
                   res, normVars>>

\* Tesseract.recognize resolves and spawn() fails with ENOENT or EACCES (no
\* python on the PATH): the child emits 'error' on the next tick, py has no
\* 'error' listener, so emit throws and the process dies
OcrResolveSpawnError(r, t) ==
    /\ ~crashed
    /\ pc[r] = "OcrRunning"
    /\ text' = [text EXCEPT ![r] = t]
    /\ argv' = [argv EXCEPT ![r] = cleanText(t)]
    /\ log' = [log EXCEPT ![r] = Append(@, OcrLogged)]
    /\ Crash(r)
    /\ UNCHANGED <<now, disk, file, filename, written, py, stdout, stderr, res,
                   normVars>>

(***************************************************************************)
(* The child process's events.                                             *)
(***************************************************************************)
\* py.stdout 'data': stdout += chunk
StdoutData(r) ==
    /\ ~crashed
    /\ pc[r] = "ExtractionRunning"
    /\ py[r].out # <<>>
    /\ stdout' = [stdout EXCEPT ![r] = @ \o Head(py[r].out)]
    /\ py' = [py EXCEPT ![r].out = Tail(@)]
    /\ UNCHANGED <<now, disk, crashed, pc, file, filename, written, text, argv,
                   stderr, log, res, normVars>>

\* py.stderr 'data': stderr += chunk
StderrData(r) ==
    /\ ~crashed
    /\ pc[r] = "ExtractionRunning"
    /\ py[r].err # <<>>
    /\ stderr' = [stderr EXCEPT ![r] = @ \o Head(py[r].err)]
    /\ py' = [py EXCEPT ![r].err = Tail(@)]
    /\ UNCHANGED <<now, disk, crashed, pc, file, filename, written, text, argv,
                   stdout, log, res, normVars>>

\* 'close' (the process has exited and its streams have ended): unlinkSync,
\* then the response
PyClose(r) ==
    /\ ~crashed
    /\ pc[r] = "ExtractionRunning"
    /\ py[r].out = <<>> /\ py[r].err = <<>>
    /\ Exists(r)
    /\ disk' = Unlinked(r)
    /\ LET h == CloseHandler(py[r].code, stdout[r], stderr[r], text[r])
       IN  /\ log' = [log EXCEPT ![r] = @ \o h.log]
           /\ Respond(r, h.res)
    /\ UNCHANGED <<now, crashed, file, filename, written, text, argv, py, stdout,
                   stderr, normVars>>

\* 'close' when filePath is gone: unlinkSync throws ENOENT in an event
\* listener, an uncaught exception
PyCloseUnlinkThrows(r) ==
    /\ ~crashed
    /\ pc[r] = "ExtractionRunning"
    /\ py[r].out = <<>> /\ py[r].err = <<>>
    /\ ~Exists(r)
    /\ Crash(r)
    /\ UNCHANGED <<now, disk, file, filename, written, text, argv, py, stdout,
                   stderr, log, res, normVars>>

(***************************************************************************)
(* Specifications.                                                         *)
(***************************************************************************)
\* what a request's pipeline does without new input from the client
Step(r) ==
    \/ StreamData(r)
    \/ MulterAbort(r)
    \/ StartOcr(r)
    \/ OcrReject(r)
    \/ \E t \in OcrTexts : OcrResolveSpawnThrows(r, t)
    \/ \E o \in {"exit", "warn"} : OcrRejectUnlinkThrows(r, o)
    \/ \E t \in OcrTexts, o \in {"exit", "warn"} : SpawnThrowsUnlinkThrows(r, t, o)
    \/ \E t \in OcrTexts, run \in ProcessRuns : OcrResolve(r, t, run)
    \/ \E t \in OcrTexts : OcrResolveSpawnError(r, t)
    \/ StdoutData(r)
    \/ StderrData(r)
    \/ PyClose(r)
    \/ PyCloseUnlinkThrows(r)

Next ==
    \/ Tick
    \/ \E r \in Reqs : ReceiveNoFile(r)
    \/ \E r \in Reqs : ReceiveUnexpectedField(r)
    \/ \E r \in Reqs, o \in OriginalNames, size \in Sizes : Receive(r, o, size)
    \/ \E r \in Reqs : StreamData(r)
    \/ \E r \in Reqs : MulterAbort(r)
    \/ \E r \in Reqs : StartOcr(r)
    \/ \E r \in Reqs : OcrReject(r)
    \/ \E r \in Reqs, t \in OcrTexts : OcrResolveSpawnThrows(r, t)
    \/ \E r \in Reqs, o \in {"exit", "warn"} : OcrRejectUnlinkThrows(r, o)
    \/ \E r \in Reqs, t \in OcrTexts, o \in {"exit", "warn"} : SpawnThrowsUnlinkThrows(r, t, o)
    \/ \E r \in Reqs, t \in OcrTexts, run \in ProcessRuns : OcrResolve(r, t, run)
    \/ \E r \in Reqs, t \in OcrTexts : OcrResolveSpawnError(r, t)
    \/ \E r \in Reqs : StdoutData(r)
    \/ \E r \in Reqs : StderrData(r)
    \/ \E r \in Reqs : PyClose(r)
    \/ \E r \in Reqs : PyCloseUnlinkThrows(r)

Spec == Init /\ [][Next]_vars

\* the event loop runs every callback that is ready, and the external
\* capabilities are assumed to settle: each request's next step is taken
FairSpec == Spec /\ \A r \in Reqs : WF_vars(Step(r))

\* the normalizer alone, on every short string over Chars and on Example
Normalize ==
    /\ ~ndone
    /\ nout' = cleanText(nin)
    /\ ndone' = TRUE
    /\ UNCHANGED <<nin, pipeVars>>

NormInit ==
    /\ PipeInit
    /\ nin \in NormInputs
    /\ nout = <<>>
    /\ ndone = FALSE

NormNext == Normalize

NormSpec == NormInit /\ [][NormNext]_vars

(***************************************************************************)
(* Vocabulary of the properties.                                           *)
(***************************************************************************)
TooLarge(r) == file[r].size > FileSizeLimit

\* the request passed step 1: multer stored its file and ran the callback's body
Accepted(r) ==
    /\ filename[r] # NoName
    /\ ~TooLarge(r)
    /\ pc[r] \notin {"Idle", "Uploading"}

\* the file the request's upload created is still under uploads/
ArtifactExists(r) == filename[r] # NoName /\ disk[filename[r]] = r

\* the request has a handle and its pipeline has not ended
InFlight(r) ==
    /\ ~crashed
    /\ pc[r] \in {"Uploading", "LimitHit", "Stored", "OcrRunning", "ExtractionRunning"}

\* the request's pipeline has ended, with or without a response
Terminal(r) == pc[r] \in {"Responded", "Died", "Hung"}

Logged(r, tag) == \E i \in 1..Len(log[r]) : log[r][i].tag = tag

LoggedWith(r, tag, data) ==
    \E i \in 1..Len(log[r]) : log[r][i].tag = tag /\ log[r][i].data = data

\* the process closed and the 'close' handler answered
ClosedWith(r, code) ==
    pc[r] = "Responded" /\ py[r].started /\ py[r].code = code

\* stdout is JSON of the expected shape: an object with a cleaned_text string
\* and a medicines array
ValidShape(s) ==
    LET p == JSONParse(s)
    IN  /\ p.ok
        /\ p.value.t = "object"
        /\ p.value.cleaned_text.t = "string"
        /\ p.value.medicines.t = "array"

\* the normalizer of the specification: every " preceded by a backslash,
\* every newline replaced by one space
EscapedNormalize(t) == ReplaceAll(ReplaceAll(t, "\"", <<"\\", "\"">>), "\n", <<" ">>)

(***************************************************************************)
(* C1.  On every terminal path of an accepted request (a response, or the  *)
(* end of its handler without one, as when the extraction process fails to *)
(* start) the artifact has been deleted.                                   *)
(***************************************************************************)
C1_ArtifactDeletedOnEveryTerminalPath ==
    \A r \in Reqs : Accepted(r) /\ Terminal(r) => ~ArtifactExists(r)

(***************************************************************************)
(* C2.  The normalizer returns its input with every double quote escaped   *)
(* by a backslash and every newline replaced by one space; on              *)
(* He said "ok"<newline>take 1 it returns He said \"ok\" take 1.           *)
(***************************************************************************)
C2_NormalizerEscapesQuotes ==
    ndone => nout = EscapedNormalize(nin)

(***************************************************************************)
(* C3.  As claimed: an image larger than 10 MiB is rejected with 413       *)
(* without any byte of it written under uploads/ and without OCR or        *)
(* extraction.                                                             *)
(***************************************************************************)
C3_NoWriteWhenTooLarge ==
    \A r \in Reqs :
        TooLarge(r) =>
            /\ written[r] = 0
            /\ pc[r] \notin {"Stored", "OcrRunning", "ExtractionRunning"}
            /\ (pc[r] = "Responded" => res[r].status = 413)

(***************************************************************************)
(* C3, amended.  An image larger than 10 MiB is rejected with 413, never   *)
(* reaches OCR or extraction, at most 10 MiB of it are written under       *)
(* uploads/, and the file holding them is gone when the 413 is sent.       *)
(***************************************************************************)
C3_TooLargeRejected ==
    \A r \in Reqs :
        TooLarge(r) =>
            /\ written[r] <= FileSizeLimit
            /\ pc[r] \in {"Uploading", "LimitHit", "Responded"}
            /\ ~Logged(r, "OCR text extracted")
            /\ ~py[r].started
            /\ (pc[r] = "Responded" =>
                    /\ res[r] = Resp(413, [error |-> "File too large. Max size is 10MB."])
                    /\ ~ArtifactExists(r))

C3_Witness ==
    \E r \in Reqs :
        /\ TooLarge(r)
        /\ pc[r] = "Responded"
        /\ res[r].status = 413
        /\ written[r] > 0

(***************************************************************************)
(* C4.  Exit code 0 with stdout that is not JSON of the expected shape     *)
(* yields 500 'Failed to parse NER output', never a success, and the       *)
(* artifact has been deleted.                                              *)
(***************************************************************************)
C4_InvalidOutputRejected ==
    \A r \in Reqs :
        ClosedWith(r, 0) /\ ~ValidShape(stdout[r]) =>
            /\ res[r] = ParseFailed
            /\ ~ArtifactExists(r)

(***************************************************************************)
(* C5.  For a process that exits with a nonzero code, stdout is never      *)
(* parsed and the only response is 500 with the body {error: 'NER          *)
(* failed'}; when it is sent the artifact has been deleted and the         *)
(* captured stderr has gone to the console, not into the body.             *)
(***************************************************************************)
C5_NonzeroExit ==
    \A r \in Reqs :
        py[r].started /\ py[r].code # 0 =>
            /\ ~Logged(r, "Parsed result")
            /\ ~Logged(r, "JSON parse error")
            /\ res[r] \in {NoRes, Resp(500, [error |-> "NER failed"])}
            /\ (pc[r] = "Responded" =>
                    /\ res[r] = Resp(500, [error |-> "NER failed"])
                    /\ ~ArtifactExists(r)
                    /\ LoggedWith(r, "Python stderr", stderr[r]))

C5_Witness ==
    \E r \in Reqs :
        /\ ClosedWith(r, 1)
        /\ stderr[r] = "Killed"
        /\ ValidShape(stdout[r])

(***************************************************************************)
(* C6.  Two requests in flight at the same time have distinct artifact     *)
(* handles.                                                                *)
(***************************************************************************)
C6_DistinctHandles ==
    \A r1, r2 \in Reqs :
        r1 # r2 /\ InFlight(r1) /\ InFlight(r2) => filename[r1] # filename[r2]

(***************************************************************************)
(* C7.  While an accepted request is in flight (its OCR or extraction has  *)
(* not finished) its artifact is in the store: the delete has not run.     *)
(***************************************************************************)
C7_ArtifactHeldWhileRunning ==
    \A r \in Reqs :
        InFlight(r) /\ pc[r] \in {"Stored", "OcrRunning", "ExtractionRunning"} =>
            ArtifactExists(r)

C9_RunsToCompletion ==
    \A r \in Reqs : (pc[r] = "Stored") ~> (pc[r] = "Responded")

(***************************************************************************)
(* C10.  'OCR failed' is the answer only of a request whose OCR call       *)
(* failed.                                                                 *)
(***************************************************************************)
C10_OcrFailedOnlyWhenOcrFailed ==
    \A r \in Reqs : res[r] = OcrFailed => ~Logged(r, "OCR text extracted")

====
